---- MODULE Spec2Model ----
(***************************************************************************)
(* Leave-management backend (ELMS): the leave-request lifecycle, the       *)
(* approval workflow engine and the balance ledger, as implemented in      *)
(* backend/app/legacy_main.py, backend/app/services/leave_service.py and   *)
(* backend/app/utils/helpers.py.                                           *)
(*                                                                         *)
(* The database tables are the state.  Every HTTP handler is a pure        *)
(* operator from (tables, inputs) to (error, tables); the actions of Spec  *)
(* apply one whole handler per step.  SpecTx runs the handlers session by  *)
(* session, split at the points where the code reads and commits.          *)
(***************************************************************************)
EXTENDS Integers, Sequences, FiniteSets, TLC

VARIABLES
    users,        \* table users: id -> [role, manager_id, is_active]
    requests,     \* table leave_requests, in id order (id = index)
    workflow,     \* table approval_workflow, in id order (id = index)
    balances,     \* table leave_balances: <<user, type, year>> -> row
    holidays,     \* table holidays: the set of holiday dates
    delegations,  \* table delegations, in id order
    today,        \* date.today()
    sessions      \* in-flight handler calls (SpecTx only): session -> locals

vars == <<users, requests, workflow, balances, holidays, delegations, today, sessions>>

-----------------------------------------------------------------------------
(* Bounds of the model *)

MaxRequests == 2      \* leave requests created in one behaviour
WindowDays == 4       \* calendar days the inputs range over

-----------------------------------------------------------------------------
(* Enumerations: schemas/enums.py *)

EMPLOYEE == "employee"
MANAGER == "manager"
HR_ADMIN == "hr_admin"

PENDING == "pending"
APPROVED == "approved"
REJECTED == "rejected"
CANCELLED == "cancelled"

None == 0             \* a NULL column / a missing optional input (falsy in Python)
Unset == "unset"      \* an optional string input that is not given (is None)

-----------------------------------------------------------------------------
(* Calendar dates are proleptic Gregorian ordinals, as date.toordinal().   *)
(* The inputs range over a window that starts on Friday 2021-12-31 and so  *)
(* holds a year boundary and a weekend.                                    *)

DaysBeforeYear(y) ==
    (y - 1) * 365 + ((y - 1) \div 4) - ((y - 1) \div 100) + ((y - 1) \div 400)

NewYear == DaysBeforeYear(2022) + 1          \* 2022-01-01, a Saturday
FirstDate == NewYear - 1                     \* 2021-12-31, a Friday
Dates == FirstDate .. (FirstDate + WindowDays - 1)

\* date.weekday(): Monday = 0 ... Sunday = 6
weekday(d) == (d + 6) % 7

\* date.year, for the dates of 2021 and later years of the window
year(d) == IF d < NewYear THEN 2021 ELSE 2022 + ((d - NewYear) \div 365)

Years == {year(d) : d \in Dates}

-----------------------------------------------------------------------------
(* The user directory and the leave types *)

UserIds == 1 .. 4

\* The seeded users (HR admin 1, manager 2, employee 3 reporting to 2) and a
\* senior manager 4, registered later, to whom manager 2 reports.
Directory ==
    (1 :> [role |-> HR_ADMIN, manager_id |-> None, is_active |-> TRUE]) @@
    (2 :> [role |-> MANAGER,  manager_id |-> 4,    is_active |-> TRUE]) @@
    (3 :> [role |-> EMPLOYEE, manager_id |-> 2,    is_active |-> TRUE]) @@
    (4 :> [role |-> MANAGER,  manager_id |-> None, is_active |-> TRUE])

\* The users whose calls create requests.
Requesters == {2, 3}

\* Table leave_types: a leave type the HR admin created after the five seeded
\* ones, with an annual quota of one day, and one created and deactivated.
LeaveTypes ==
    (6 :> [annual_quota |-> 1, is_active |-> TRUE]) @@
    (7 :> [annual_quota |-> 2, is_active |-> FALSE])
LeaveTypeIds == {t \in DOMAIN LeaveTypes : LeaveTypes[t].is_active}
annual_quota(t) == LeaveTypes[t].annual_quota

HrThreshold == 5      \* "if leave_request.total_days > 5"

-----------------------------------------------------------------------------
(* LeaveBalance.available_days *)

available_days(b) == b.total_days - b.used_days - b.pending_days

NewBalance(t) == [total_days |-> annual_quota(t), used_days |-> 0, pending_days |-> 0]

BalanceKey(uid, t, y) == <<uid, t, y>>

-----------------------------------------------------------------------------
(* utils/helpers.py *)

RECURSIVE working_days_loop(_, _, _, _)
working_days_loop(current_date, end_date, holiday_dates, working_days) ==
    IF current_date > end_date
    THEN working_days
    ELSE working_days_loop(
             current_date + 1, end_date, holiday_dates,
             IF weekday(current_date) < 5 /\ current_date \notin holiday_dates
             THEN working_days + 1
             ELSE working_days)

\* Variant that reads no holiday.
calculate_working_days_weekends_only(start_date, end_date, hols) ==
    working_days_loop(start_date, end_date, {}, 0)

\* Called with start_date <= end_date only (the callers check it first).
calculate_working_days(start_date, end_date, hols) ==
    working_days_loop(start_date, end_date,
                      {h \in hols : h >= start_date /\ h <= end_date}, 0)

\* Variant that counts a request of any status.
IsActiveRequest_any_status(r) == TRUE

\* Line 49: the status filter.
IsActiveRequest(r) == r.status \in {PENDING, APPROVED}

\* Variant that finds no conflicting request.
check_overlapping_requests_none(reqs, user_id, start_date, end_date, exclude_request_id) ==
    FALSE

check_overlapping_requests(reqs, user_id, start_date, end_date, exclude_request_id) ==
    \E i \in DOMAIN reqs :
        /\ reqs[i].user_id = user_id
        /\ IsActiveRequest(reqs[i])
        /\ reqs[i].start_date <= end_date
        /\ reqs[i].end_date >= start_date
        /\ (exclude_request_id # None => i # exclude_request_id)

\* The first matching row in id order, None when there is none.
get_active_delegate(delegs, approver_id, approval_date) ==
    LET hits == {i \in DOMAIN delegs :
                    /\ delegs[i].delegator_id = approver_id
                    /\ delegs[i].is_active
                    /\ delegs[i].start_date <= approval_date
                    /\ delegs[i].end_date >= approval_date}
    IN IF hits = {} THEN None
       ELSE delegs[CHOOSE i \in hits : \A j \in hits : i <= j].delegate_id

-----------------------------------------------------------------------------
(* Handler results *)

DB == [requests |-> requests, workflow |-> workflow, balances |-> balances]

Ok(s) == [err |-> "ok", db |-> s]
Fail(e, s) == [err |-> e, db |-> s]

-----------------------------------------------------------------------------
(* services/leave_service.py: create_approval_workflow *)

\* db.query(User).filter(role == HR_ADMIN, is_active).first(): the first row
\* in id order, None when there is none.
first_hr_admin(usrs) ==
    LET hrs == {u \in DOMAIN usrs : usrs[u].role = HR_ADMIN /\ usrs[u].is_active}
    IN IF hrs = {} THEN None ELSE CHOOSE u \in hrs : \A v \in hrs : u <= v

\* Variant of line 23 that sends every requester down the employee branch.
is_manager_never(user) == FALSE

\* Line 23: "if user.role == UserRole.MANAGER".
is_manager(user) == user.role = MANAGER

\* Variant of line 62 with ">=".
needs_hr_level_inclusive(total_days) == total_days >= HrThreshold

\* Line 62: "if leave_request.total_days > 5".
needs_hr_level(total_days) == total_days > HrThreshold

\* Variant that numbers every step 1.
WorkflowStep_level_one(rid, approver, level) ==
    [leave_request_id |-> rid, approver_id |-> approver,
     approval_level |-> 1, status |-> PENDING]

WorkflowStep(rid, approver, level) ==
    [leave_request_id |-> rid, approver_id |-> approver,
     approval_level |-> level, status |-> PENDING]

\* The steps db.add()ed for request rid of user uid, in insertion order.
create_approval_workflow(usrs, rid, uid, total_days) ==
    LET user == usrs[uid]
        hr_admin == first_hr_admin(usrs)
    IN IF is_manager(user)
       THEN IF hr_admin # None THEN <<WorkflowStep(rid, hr_admin, 1)>> ELSE <<>>
       ELSE LET level1 == IF user.manager_id # None
                          THEN <<WorkflowStep(rid, user.manager_id, 1)>>
                          ELSE <<>>
                level2 == IF /\ user.manager_id # None
                             /\ user.manager_id \in DOMAIN usrs
                             /\ usrs[user.manager_id].manager_id # None
                          THEN <<WorkflowStep(rid, usrs[user.manager_id].manager_id, 2)>>
                          ELSE <<>>
                approval_level == 1 + Len(level1) + Len(level2)
                level3 == IF needs_hr_level(total_days) /\ hr_admin # None
                          THEN <<WorkflowStep(rid, hr_admin, approval_level)>>
                          ELSE <<>>
            IN level1 \o level2 \o level3

-----------------------------------------------------------------------------
(* services/leave_service.py: process_approval *)

\* Variant without the filter of line 102: the approver's Pending step on any
\* request matches.
find_pending_workflow_any_request(wf, leave_request_id, approver_id) ==
    LET hits == {i \in DOMAIN wf :
                    /\ wf[i].approver_id = approver_id
                    /\ wf[i].status = PENDING}
    IN IF hits = {} THEN None ELSE CHOOSE i \in hits : \A j \in hits : i <= j

\* Variant without the filter of line 104: any step of the approver matches.
find_pending_workflow_any_status(wf, leave_request_id, approver_id) ==
    LET hits == {i \in DOMAIN wf :
                    /\ wf[i].leave_request_id = leave_request_id
                    /\ wf[i].approver_id = approver_id}
    IN IF hits = {} THEN None ELSE CHOOSE i \in hits : \A j \in hits : i <= j

\* The approver's Pending step on the request: the first row in id order,
\* None when there is none.
find_pending_workflow(wf, leave_request_id, approver_id) ==
    LET hits == {i \in DOMAIN wf :
                    /\ wf[i].leave_request_id = leave_request_id
                    /\ wf[i].approver_id = approver_id
                    /\ wf[i].status = PENDING}
    IN IF hits = {} THEN None ELSE CHOOSE i \in hits : \A j \in hits : i <= j

\* Variant without the gate of lines 114-124.
previous_levels_ungated(wf, leave_request_id, level) == {}

\* Variant that waits for Pending lower steps only.
previous_levels_pending_only(wf, leave_request_id, level) ==
    {i \in DOMAIN wf :
        /\ wf[i].leave_request_id = leave_request_id
        /\ wf[i].approval_level < level
        /\ wf[i].status = PENDING}

\* Lines 114-118: the lower steps that are not Approved.
previous_levels(wf, leave_request_id, level) ==
    {i \in DOMAIN wf :
        /\ wf[i].leave_request_id = leave_request_id
        /\ wf[i].approval_level < level
        /\ wf[i].status # APPROVED}

\* Variant that sees no higher step.
remaining_approvals_none(wf, leave_request_id, level) == {}

\* Lines 147-150: the steps at a higher level.
remaining_approvals(wf, leave_request_id, level) ==
    {i \in DOMAIN wf :
        /\ wf[i].leave_request_id = leave_request_id
        /\ wf[i].approval_level > level}

\* Variant of lines 89-124 that looks the step up under the delegate.
process_approval_find_rekeyed(s, delegs, tdy, leave_request_id, approver_id) ==
    IF leave_request_id \notin DOMAIN s.requests
    THEN [err |-> "RequestNotFound", wf |-> None]
    ELSE LET delegate_id == get_active_delegate(delegs, approver_id, tdy)
             effective_approver_id ==
                 IF delegate_id # None THEN delegate_id ELSE approver_id
             wf == find_pending_workflow(s.workflow, leave_request_id,
                                         effective_approver_id)
         IN IF wf = None
            THEN [err |-> "NoPendingApproval", wf |-> None]
            ELSE IF previous_levels(s.workflow, leave_request_id,
                                    s.workflow[wf].approval_level) # {}
                 THEN [err |-> "OutOfOrderApproval", wf |-> None]
                 ELSE [err |-> "ok", wf |-> wf]

\* Lines 89-124: the request and the step the session loads, and the gate.
process_approval_find(s, delegs, tdy, leave_request_id, approver_id) ==
    IF leave_request_id \notin DOMAIN s.requests
    THEN [err |-> "RequestNotFound", wf |-> None]
    ELSE LET delegate_id == get_active_delegate(delegs, approver_id, tdy)
             effective_approver_id ==
                 IF delegate_id # None THEN delegate_id ELSE approver_id
             wf == find_pending_workflow(s.workflow, leave_request_id, approver_id)
         IN IF wf = None
            THEN [err |-> "NoPendingApproval", wf |-> None]
            ELSE IF previous_levels(s.workflow, leave_request_id,
                                    s.workflow[wf].approval_level) # {}
                 THEN [err |-> "OutOfOrderApproval", wf |-> None]
                 ELSE [err |-> "ok", wf |-> wf]

RequestBalanceKey(r) == BalanceKey(r.user_id, r.leave_type_id, year(r.start_date))

\* Lines 126-166: what the session changes on the rows it holds.  request and
\* step are the rows loaded at lines 89-105; s is the database as the queries
\* of lines 137-162 see it.  A column is written by the flush only when the
\* assignment changes the value the session holds.
process_approval_changes(s, request, wf, step, approve) ==
    LET key == RequestBalanceKey(request)
        found == key \in DOMAIN s.balances
        final == remaining_approvals(s.workflow, step.leave_request_id,
                                     step.approval_level) = {}
    IN [wf |-> wf,
        rid |-> step.leave_request_id,
        wf_status |-> IF approve THEN APPROVED ELSE REJECTED,
        set_status |-> ~approve \/ final,
        req_status |-> IF approve THEN APPROVED ELSE REJECTED,
        key |-> key,
        set_used |-> found /\ approve /\ final /\ request.total_days # 0,
        used_days |-> IF found THEN s.balances[key].used_days + request.total_days
                      ELSE 0,
        set_pending |-> found /\ (~approve \/ final) /\ request.total_days # 0,
        pending_days |-> IF found THEN s.balances[key].pending_days - request.total_days
                         ELSE 0]

\* Line 168: db.commit() flushes the session's changes as UPDATEs by row id.
process_approval_commit(s, c) ==
    [requests |-> IF c.set_status
                  THEN [s.requests EXCEPT ![c.rid].status = c.req_status]
                  ELSE s.requests,
     workflow |-> [s.workflow EXCEPT ![c.wf].status = c.wf_status],
     balances |-> IF c.key \notin DOMAIN s.balances THEN s.balances
                  ELSE [s.balances EXCEPT
                           ![c.key].used_days =
                               IF c.set_used THEN c.used_days ELSE @,
                           ![c.key].pending_days =
                               IF c.set_pending THEN c.pending_days ELSE @]]

\* The whole call, run without interference.
process_approval(s, delegs, tdy, leave_request_id, approver_id, approve) ==
    LET found == process_approval_find(s, delegs, tdy, leave_request_id, approver_id)
    IN IF found.err # "ok" THEN Fail(found.err, s)
       ELSE Ok(process_approval_commit(s,
                process_approval_changes(s, s.requests[leave_request_id], found.wf,
                                         s.workflow[found.wf], approve)))

\* approve_leave_request / reject_leave_request: Manager and HR admin only.
decide_leave_request(s, usrs, delegs, tdy, request_id, current_user, approve) ==
    IF usrs[current_user].role \notin {MANAGER, HR_ADMIN}
    THEN Fail("Forbidden", s)
    ELSE process_approval(s, delegs, tdy, request_id, current_user, approve)

-----------------------------------------------------------------------------
(* legacy_main.py: create_leave_request *)

\* Variant without the check of line 910.
insufficient_balance_unchecked(b, total_days) == FALSE

\* Variant that also refuses a request that uses up the balance.
insufficient_balance_or_exact(b, total_days) == available_days(b) <= total_days

\* Line 910: "if balance.available_days < total_days".
insufficient_balance(b, total_days) == available_days(b) < total_days

\* Variant without the check of line 892.
no_working_days_unchecked(total_days) == FALSE

\* Line 892: "if total_days == 0".
no_working_days(total_days) == total_days = 0

\* Lines 883-914: the validations, made on the rows the session reads.
create_check(s, hols, tdy, uid, leave_type_id, start_date, end_date) ==
    IF start_date > end_date THEN "InvalidDateRange"
    ELSE IF start_date < tdy THEN "PastDateNotAllowed"
    ELSE IF no_working_days(calculate_working_days(start_date, end_date, hols))
         THEN "ZeroWorkingDays"
    ELSE IF check_overlapping_requests(s.requests, uid, start_date, end_date, None)
         THEN "OverlappingRequest"
    ELSE IF BalanceKey(uid, leave_type_id, year(start_date)) \notin DOMAIN s.balances
         THEN "BalanceNotFound"
    ELSE IF insufficient_balance(
                s.balances[BalanceKey(uid, leave_type_id, year(start_date))],
                calculate_working_days(start_date, end_date, hols))
         THEN "InsufficientBalance"
    ELSE "ok"

LeaveRequest(uid, leave_type_id, start_date, end_date, total_days, reason) ==
    [user_id |-> uid, leave_type_id |-> leave_type_id,
     start_date |-> start_date, end_date |-> end_date,
     total_days |-> total_days, reason |-> reason, status |-> PENDING]

\* Lines 916-928: the request row is inserted and committed.
create_insert(s, request) ==
    [s EXCEPT !.requests = Append(@, request)]

\* Lines 931-936 with create_approval_workflow's commit (line 76): the balance
\* row as reloaded after the first commit gets pending_days += total_days, and
\* the workflow steps are inserted.
create_reserve(s, usrs, rid, request, balance) ==
    LET key == RequestBalanceKey(request)
    IN [requests |-> s.requests,
        workflow |-> s.workflow \o
                     create_approval_workflow(usrs, rid, request.user_id,
                                              request.total_days),
        balances |-> IF key \in DOMAIN s.balances
                     THEN [s.balances EXCEPT
                              ![key].pending_days =
                                  balance.pending_days + request.total_days]
                     ELSE s.balances]

\* The whole call, run without interference.
create_leave_request(s, usrs, hols, tdy, uid, leave_type_id, start_date, end_date, reason) ==
    LET err == create_check(s, hols, tdy, uid, leave_type_id, start_date, end_date)
        request == LeaveRequest(uid, leave_type_id, start_date, end_date,
                       calculate_working_days(start_date, end_date, hols), reason)
        inserted == create_insert(s, request)
    IN IF err # "ok" THEN Fail(err, s)
       ELSE Ok(create_reserve(inserted, usrs, Len(inserted.requests), request,
                              inserted.balances[RequestBalanceKey(request)]))

-----------------------------------------------------------------------------
(* legacy_main.py: update_leave_request *)

\* Lines 1092-1106: the balance of the NEW start date's year gives back the
\* old days and takes the new ones.
update_balance(bals, key, old_total_days, new_total_days) ==
    [bals EXCEPT ![key].pending_days = @ - old_total_days + new_total_days]

\* Lines 1099-1104: the check made after the old days are taken off.
update_fits(b, old_total_days, new_total_days) ==
    available_days([b EXCEPT !.pending_days = @ - old_total_days]) >= new_total_days

\* Variant of line 1074 that also lets Approved requests be edited.
update_is_pending_or_approved(leave_request) ==
    leave_request.status \in {PENDING, APPROVED}

\* Line 1074: "if leave_request.status != RequestStatus.PENDING".
update_is_pending(leave_request) == leave_request.status = PENDING

\* Variant that also sets the steps of the request back to Pending.
update_apply_resetting_steps(s, key, request_id, start_date, end_date, new_total_days, reason) ==
    [s EXCEPT
        !.balances = IF key \in DOMAIN s.balances
                     THEN update_balance(@, key, s.requests[request_id].total_days,
                                         new_total_days)
                     ELSE @,
        !.requests[request_id] =
            [@ EXCEPT !.start_date = start_date,
                      !.end_date = end_date,
                      !.total_days = new_total_days,
                      !.reason = reason],
        !.workflow = [i \in DOMAIN @ |->
                         IF @[i].leave_request_id = request_id
                         THEN [@[i] EXCEPT !.status = PENDING]
                         ELSE @[i]]]

\* Lines 1099-1116: the rows the call writes, the balance row (when there is
\* one) and the request row; no row of approval_workflows.
update_apply(s, key, request_id, start_date, end_date, new_total_days, reason) ==
    [s EXCEPT
        !.balances = IF key \in DOMAIN s.balances
                     THEN update_balance(@, key, s.requests[request_id].total_days,
                                         new_total_days)
                     ELSE @,
        !.requests[request_id] =
            [@ EXCEPT !.start_date = start_date,
                      !.end_date = end_date,
                      !.total_days = new_total_days,
                      !.reason = reason]]

update_leave_request(s, hols, request_id, current_user, new_start, new_end, new_reason) ==
    IF request_id \notin DOMAIN s.requests THEN Fail("RequestNotFound", s)
    ELSE LET leave_request == s.requests[request_id]
             start_date == IF new_start # None THEN new_start
                           ELSE leave_request.start_date
             end_date == IF new_end # None THEN new_end ELSE leave_request.end_date
             new_total_days == calculate_working_days(start_date, end_date, hols)
             key == BalanceKey(current_user, leave_request.leave_type_id,
                               year(start_date))
             reason == IF new_reason # Unset THEN new_reason ELSE leave_request.reason
         IN IF leave_request.user_id # current_user THEN Fail("Forbidden", s)
            ELSE IF ~update_is_pending(leave_request) THEN Fail("NotPending", s)
            ELSE IF new_start = None /\ new_end = None
                 THEN Ok([s EXCEPT !.requests[request_id].reason = reason])
            ELSE IF start_date > end_date THEN Fail("InvalidDateRange", s)
            ELSE IF check_overlapping_requests(s.requests, current_user, start_date,
                                               end_date, request_id)
                 THEN Fail("OverlappingRequest", s)
            ELSE IF /\ key \in DOMAIN s.balances
                    /\ ~update_fits(s.balances[key], leave_request.total_days,
                                    new_total_days)
                 THEN Fail("InsufficientBalance", s)
            ELSE Ok(update_apply(s, key, request_id, start_date, end_date,
                                 new_total_days, reason))

-----------------------------------------------------------------------------
(* legacy_main.py: cancel_leave_request *)

\* Lines 1161-1172: the days go back to the balance of the start date's year.
cancel_restore(b, old_status, total_days) ==
    IF old_status = PENDING THEN [b EXCEPT !.pending_days = @ - total_days]
    ELSE IF old_status = APPROVED THEN [b EXCEPT !.used_days = @ - total_days]
    ELSE b

\* Variant of line 1153 with "<=".
cancel_is_past_or_today(start_date, tdy) == start_date <= tdy

\* Line 1153: "if leave_request.start_date < date.today()".
cancel_is_past(start_date, tdy) == start_date < tdy

cancel_leave_request(s, tdy, request_id, current_user) ==
    IF request_id \notin DOMAIN s.requests THEN Fail("RequestNotFound", s)
    ELSE LET leave_request == s.requests[request_id]
             key == RequestBalanceKey(leave_request)
         IN IF leave_request.user_id # current_user THEN Fail("Forbidden", s)
            ELSE IF ~IsActiveRequest(leave_request) THEN Fail("NotCancellable", s)
            ELSE IF cancel_is_past(leave_request.start_date, tdy)
                 THEN Fail("PastLeaveCancellation", s)
            ELSE Ok([s EXCEPT
                        !.requests[request_id].status = CANCELLED,
                        !.balances = IF key \in DOMAIN s.balances
                                     THEN [@ EXCEPT ![key] =
                                              cancel_restore(@, leave_request.status,
                                                  leave_request.total_days)]
                                     ELSE @])

-----------------------------------------------------------------------------
(* legacy_main.py: initialize_leave_balances (HR admin only) *)

\* Variant that writes a fresh balance over an existing one.
initialize_leave_balances_reset(s, usrs, y) ==
    [s EXCEPT !.balances =
        [k \in DOMAIN @ \cup {BalanceKey(u, t, y) : u \in DOMAIN usrs, t \in LeaveTypeIds}
            |-> IF k[3] = y /\ k[2] \in LeaveTypeIds THEN NewBalance(k[2]) ELSE @[k]]]

initialize_leave_balances(s, usrs, y) ==
    LET wanted == {BalanceKey(u, t, y) : u \in {v \in DOMAIN usrs : usrs[v].is_active},
                                         t \in LeaveTypeIds}
        missing == wanted \ DOMAIN s.balances
    IN [s EXCEPT !.balances =
           [k \in DOMAIN @ \cup missing |->
               IF k \in DOMAIN @ THEN @[k] ELSE NewBalance(k[2])]]

-----------------------------------------------------------------------------
(* The state after construction: seed_database, then the HR admin registers  *)
(* user 4, makes it the manager of user 2, creates the leave type and        *)
(* initializes the balances of the current year.                             *)

Reasons == {"family"}

Idle == [pc |-> "idle"]
Sessions == {"s1", "s2"}

InitialBalances ==
    [k \in {BalanceKey(u, t, year(FirstDate)) : u \in UserIds, t \in LeaveTypeIds}
        |-> NewBalance(k[2])]

Init ==
    /\ users = Directory
    /\ requests = <<>>
    /\ workflow = <<>>
    /\ balances = InitialBalances
    /\ holidays = {}
    /\ delegations = <<>>
    /\ today = FirstDate
    /\ sessions = [x \in Sessions |-> Idle]

SetDB(s) ==
    /\ requests' = s.requests
    /\ workflow' = s.workflow
    /\ balances' = s.balances

-----------------------------------------------------------------------------
(* One action per handler: the whole call in one step.  A call that fails    *)
(* (an early return with an HTTP error) changes no table, so only the calls  *)
(* that succeed are steps; what a failing call answers is read off the       *)
(* handler's operator.                                                       *)

Applies(res) ==
    /\ res.err = "ok"
    /\ SetDB(res.db)

Create(u, t, start_date, end_date, reason) ==
    /\ Len(requests) < MaxRequests
    /\ users[u].is_active
    /\ Applies(create_leave_request(DB, users, holidays, today, u, t,
                                    start_date, end_date, reason))
    /\ UNCHANGED <<users, holidays, delegations, today, sessions>>

Update(rid, u, new_start, new_end, new_reason) ==
    /\ users[u].is_active
    /\ Applies(update_leave_request(DB, holidays, rid, u, new_start, new_end,
                                    new_reason))
    /\ UNCHANGED <<users, holidays, delegations, today, sessions>>

Cancel(rid, u) ==
    /\ users[u].is_active
    /\ Applies(cancel_leave_request(DB, today, rid, u))
    /\ UNCHANGED <<users, holidays, delegations, today, sessions>>

Decide(rid, u, approve) ==
    /\ users[u].is_active
    /\ Applies(decide_leave_request(DB, users, delegations, today, rid, u, approve))
    /\ UNCHANGED <<users, holidays, delegations, today, sessions>>

InitializeBalances(u, y) ==
    /\ users[u].is_active
    /\ users[u].role = HR_ADMIN
    /\ SetDB(initialize_leave_balances(DB, users, y))
    /\ UNCHANGED <<users, holidays, delegations, today, sessions>>

\* The conjuncts before the inner quantifiers repeat conditions without which
\* the handler fails; they only spare evaluating calls that cannot succeed.
Next ==
    \/ \E u \in Requesters, t \in LeaveTypeIds, sd \in Dates, ed \in Dates, r \in Reasons :
           Create(u, t, sd, ed, r)
    \/ \E rid \in DOMAIN requests, u \in UserIds :
           /\ requests[rid].user_id = u
           /\ requests[rid].status = PENDING
           /\ \E ns \in Dates \cup {None}, ne \in Dates \cup {None} :
                  Update(rid, u, ns, ne, Unset)
    \/ \E rid \in DOMAIN requests, u \in UserIds : Cancel(rid, u)
    \/ \E rid \in DOMAIN requests, u \in UserIds, approve \in BOOLEAN :
           Decide(rid, u, approve)
    \/ \E u \in UserIds, y \in Years : InitializeBalances(u, y)

Spec == Init /\ [][Next]_vars

-----------------------------------------------------------------------------
(* The same handlers step by step.  FastAPI runs the synchronous endpoints   *)
(* in a thread pool, each call with its own session (get_db); a session      *)
(* reads committed rows, keeps the rows it has loaded, and writes at its     *)
(* commits.  create and decide are split at their reads and commits.         *)

InFlight(pcs) == Cardinality({x \in Sessions : sessions[x].pc \in pcs})

\* create_leave_request, lines 883-914.
CreateCheck(x, u, t, start_date, end_date, reason) ==
    /\ sessions[x].pc = "idle"
    /\ Len(requests) + InFlight({"create_checked"}) < MaxRequests
    /\ users[u].is_active
    /\ create_check(DB, holidays, today, u, t, start_date, end_date) = "ok"
    /\ sessions' = [sessions EXCEPT ![x] =
           [pc |-> "create_checked",
            request |-> LeaveRequest(u, t, start_date, end_date,
                            calculate_working_days(start_date, end_date, holidays),
                            reason)]]
    /\ UNCHANGED <<users, requests, workflow, balances, holidays, delegations, today>>

\* create_leave_request, lines 916-928: db.add, db.commit, db.refresh.
CreateInsert(x) ==
    /\ sessions[x].pc = "create_checked"
    /\ SetDB(create_insert(DB, sessions[x].request))
    /\ sessions' = [sessions EXCEPT ![x] =
           [pc |-> "create_inserted",
            rid |-> Len(requests) + 1,
            request |-> sessions[x].request]]
    /\ UNCHANGED <<users, holidays, delegations, today>>

\* create_leave_request, lines 931-936: the first commit expired the balance
\* row, so line 931 reloads it; create_approval_workflow commits.
CreateReserve(x) ==
    /\ sessions[x].pc = "create_inserted"
    /\ SetDB(create_reserve(DB, users, sessions[x].rid, sessions[x].request,
                            balances[RequestBalanceKey(sessions[x].request)]))
    /\ sessions' = [sessions EXCEPT ![x] = Idle]
    /\ UNCHANGED <<users, holidays, delegations, today>>

\* approve_leave_request / reject_leave_request, then process_approval lines
\* 89-124.  snapshot is the tables as the session read them.
DecideFind(x, rid, u, approve) ==
    /\ sessions[x].pc = "idle"
    /\ users[u].is_active
    /\ users[u].role \in {MANAGER, HR_ADMIN}
    /\ LET found == process_approval_find(DB, delegations, today, rid, u)
       IN  /\ found.err = "ok"
           /\ sessions' = [sessions EXCEPT ![x] =
                  [pc |-> "decide_found", leave_request_id |-> rid,
                   approver_id |-> u, approve |-> approve,
                   wf |-> found.wf, snapshot |-> DB]]
    /\ UNCHANGED <<users, requests, workflow, balances, holidays, delegations, today>>

\* process_approval, lines 126-166: the request and step rows are the ones
\* loaded at lines 89-105, the balance row is read now.
DecideLoad(x) ==
    /\ sessions[x].pc = "decide_found"
    /\ LET c == sessions[x]
       IN  sessions' = [sessions EXCEPT ![x] =
               [pc |-> "decide_loaded", leave_request_id |-> c.leave_request_id,
                approver_id |-> c.approver_id, approve |-> c.approve,
                snapshot |-> c.snapshot,
                changes |-> process_approval_changes(DB,
                                c.snapshot.requests[c.leave_request_id], c.wf,
                                c.snapshot.workflow[c.wf], c.approve)]]
    /\ UNCHANGED <<users, requests, workflow, balances, holidays, delegations, today>>

\* process_approval, line 168.
DecideCommit(x) ==
    /\ sessions[x].pc = "decide_loaded"
    /\ SetDB(process_approval_commit(DB, sessions[x].changes))
    /\ LET c == sessions[x]
       IN  sessions' = [sessions EXCEPT ![x] =
               [pc |-> "decide_done", leave_request_id |-> c.leave_request_id,
                approver_id |-> c.approver_id, approve |-> c.approve,
                snapshot |-> c.snapshot]]
    /\ UNCHANGED <<users, holidays, delegations, today>>

\* approve_leave_request / reject_leave_request return their message.
DecideReturn(x) ==
    /\ sessions[x].pc = "decide_done"
    /\ sessions' = [sessions EXCEPT ![x] = Idle]
    /\ UNCHANGED <<users, requests, workflow, balances, holidays, delegations, today>>

\* get_db: a call that ends on an exception (a commit that finds the database
\* locked, the worker stopped) closes its session in the finally clause; what
\* it has not committed is discarded, what it has committed stays.
Close(x) ==
    /\ sessions[x].pc \in {"create_checked", "create_inserted",
                           "decide_found", "decide_loaded"}
    /\ sessions' = [sessions EXCEPT ![x] = Idle]
    /\ UNCHANGED <<users, requests, workflow, balances, holidays, delegations, today>>

\* The requests made here are for single days.
NextTx ==
    \/ \E x \in Sessions, u \in Requesters, t \in LeaveTypeIds,
          d \in Dates, r \in Reasons :
           CreateCheck(x, u, t, d, d, r)
    \/ \E x \in Sessions : CreateInsert(x)
    \/ \E x \in Sessions : CreateReserve(x)
    \/ \E x \in Sessions, rid \in DOMAIN requests, u \in UserIds, approve \in BOOLEAN :
           DecideFind(x, rid, u, approve)
    \/ \E x \in Sessions : DecideLoad(x)
    \/ \E x \in Sessions : DecideCommit(x)
    \/ \E x \in Sessions : DecideReturn(x)
    \/ \E x \in Sessions : Close(x)

SpecTx == Init /\ [][NextTx]_vars

-----------------------------------------------------------------------------
(* The handlers while the days pass.                                         *)

\* Midnight: date.today() moves on, up to the last day of the window.
AdvanceDay ==
    /\ today < FirstDate + WindowDays - 1
    /\ today' = today + 1
    /\ UNCHANGED <<users, requests, workflow, balances, holidays, delegations, sessions>>

\* The requests made here are for single days.
NextDays ==
    \/ \E u \in Requesters, t \in LeaveTypeIds, d \in Dates, r \in Reasons :
           Create(u, t, d, d, r)
    \/ \E rid \in DOMAIN requests, u \in UserIds : Cancel(rid, u)
    \/ \E rid \in DOMAIN requests, u \in UserIds, approve \in BOOLEAN :
           Decide(rid, u, approve)
    \/ \E u \in UserIds, y \in Years : InitializeBalances(u, y)
    \/ AdvanceDay

SpecDays == Init /\ [][NextDays]_vars

-----------------------------------------------------------------------------
(* Requests moved between working days on both sides of the new year.        *)

\* Friday 2021-12-31, Monday 2022-01-03 and Tuesday 2022-01-04.
EditDays == {FirstDate, FirstDate + 3, FirstDate + 4}

\* The requests made and the edits are for single days.
NextEdit ==
    \/ \E u \in Requesters, t \in LeaveTypeIds, d \in EditDays, r \in Reasons :
           Create(u, t, d, d, r)
    \/ \E rid \in DOMAIN requests, u \in UserIds, d \in EditDays :
           Update(rid, u, d, d, Unset)
    \/ \E rid \in DOMAIN requests, u \in UserIds : Cancel(rid, u)
    \/ \E u \in UserIds, y \in {year(d) : d \in EditDays} : InitializeBalances(u, y)

SpecEdit == Init /\ [][NextEdit]_vars

-----------------------------------------------------------------------------
(* legacy_main.py: create_delegation, cancel_delegation; and the requests    *)
(* decided while delegations exist.                                          *)

MaxDelegations == 1

create_delegation(delegs, usrs, current_user, delegate_id, start_date, end_date) ==
    IF usrs[current_user].role \notin {MANAGER, HR_ADMIN}
    THEN [err |-> "Forbidden", delegations |-> delegs]
    ELSE IF start_date > end_date
    THEN [err |-> "InvalidDateRange", delegations |-> delegs]
    ELSE IF delegate_id \notin DOMAIN usrs
    THEN [err |-> "DelegateNotFound", delegations |-> delegs]
    ELSE [err |-> "ok",
          delegations |-> Append(delegs,
              [delegator_id |-> current_user, delegate_id |-> delegate_id,
               start_date |-> start_date, end_date |-> end_date,
               is_active |-> TRUE])]

cancel_delegation(delegs, usrs, delegation_id, current_user) ==
    IF usrs[current_user].role \notin {MANAGER, HR_ADMIN}
    THEN [err |-> "Forbidden", delegations |-> delegs]
    ELSE IF delegation_id \notin DOMAIN delegs
    THEN [err |-> "DelegationNotFound", delegations |-> delegs]
    ELSE IF /\ delegs[delegation_id].delegator_id # current_user
            /\ usrs[current_user].role # HR_ADMIN
    THEN [err |-> "Forbidden", delegations |-> delegs]
    ELSE [err |-> "ok",
          delegations |-> [delegs EXCEPT ![delegation_id].is_active = FALSE]]

\* A delegation that covers today and one that starts later.
DelegationRanges ==
    {<<FirstDate, FirstDate + 1>>, <<FirstDate + 2, FirstDate + 3>>}

CreateDelegation(u, delegate_id, start_date, end_date) ==
    /\ Len(delegations) < MaxDelegations
    /\ users[u].is_active
    /\ LET res == create_delegation(delegations, users, u, delegate_id,
                                    start_date, end_date)
       IN  res.err = "ok" /\ delegations' = res.delegations
    /\ UNCHANGED <<users, requests, workflow, balances, holidays, today, sessions>>

CancelDelegation(delegation_id, u) ==
    /\ users[u].is_active
    /\ delegations[delegation_id].is_active
    /\ LET res == cancel_delegation(delegations, users, delegation_id, u)
       IN  res.err = "ok" /\ delegations' = res.delegations
    /\ UNCHANGED <<users, requests, workflow, balances, holidays, today, sessions>>

\* The requests made here are for single days.
NextDeleg ==
    \/ \E u \in Requesters, t \in LeaveTypeIds, d \in Dates, r \in Reasons :
           Create(u, t, d, d, r)
    \/ \E rid \in DOMAIN requests, u \in UserIds : Cancel(rid, u)
    \/ \E rid \in DOMAIN requests, u \in UserIds, approve \in BOOLEAN :
           Decide(rid, u, approve)
    \/ \E u \in UserIds, e \in UserIds, rg \in DelegationRanges :
           CreateDelegation(u, e, rg[1], rg[2])
    \/ \E i \in DOMAIN delegations, u \in UserIds : CancelDelegation(i, u)

SpecDeleg == Init /\ [][NextDeleg]_vars

-----------------------------------------------------------------------------
(* Delegations alone: up to two rows, entered for ranges that may intersect, *)
(* cancelled, and read on each day of the window.                            *)

MaxDelegationRows == 2

\* The two ranges above and one that covers both.
OverlappingDelegationRanges ==
    DelegationRanges \cup {<<FirstDate, FirstDate + 3>>}

CreateDelegationRow(u, delegate_id, start_date, end_date) ==
    /\ Len(delegations) < MaxDelegationRows
    /\ users[u].is_active
    /\ LET res == create_delegation(delegations, users, u, delegate_id,
                                    start_date, end_date)
       IN  res.err = "ok" /\ delegations' = res.delegations
    /\ UNCHANGED <<users, requests, workflow, balances, holidays, today, sessions>>

NextDelegRows ==
    \/ \E u \in UserIds, e \in UserIds, rg \in OverlappingDelegationRanges :
           CreateDelegationRow(u, e, rg[1], rg[2])
    \/ \E i \in DOMAIN delegations, u \in UserIds : CancelDelegation(i, u)
    \/ AdvanceDay

SpecDelegRows == Init /\ [][NextDelegRows]_vars

-----------------------------------------------------------------------------
(* Chain construction over the directories register_user can build: the      *)
(* seeded HR admin 1, and users 2 and 3 registered with either role and with *)
(* or without a manager.  Requests are for the seeded "Annual Leave" type    *)
(* (quota 20) and start on Monday 2022-01-03.                                *)

AnnualLeave == 1
SeededLeaveTypes == (AnnualLeave :> [annual_quota |-> 20, is_active |-> TRUE])

ChainToday == NewYear + 2

\* Ranges of 3, 5 and 6 working days.
ChainRanges ==
    {<<ChainToday, ChainToday + 2>>,
     <<ChainToday, ChainToday + 4>>,
     <<ChainToday, ChainToday + 7>>}

ChainDirectories ==
    {(1 :> [role |-> HR_ADMIN, manager_id |-> None, is_active |-> TRUE]) @@
     (2 :> [role |-> r2,       manager_id |-> m2,   is_active |-> TRUE]) @@
     (3 :> [role |-> r3,       manager_id |-> m3,   is_active |-> TRUE]) @@
     (4 :> [role |-> MANAGER,  manager_id |-> None, is_active |-> TRUE]) :
        r2 \in {EMPLOYEE, MANAGER}, m2 \in {None, 4},
        r3 \in {EMPLOYEE, MANAGER}, m3 \in {None, 2}}

InitChain ==
    /\ users \in ChainDirectories
    /\ requests = <<>>
    /\ workflow = <<>>
    /\ balances =
           [k \in {BalanceKey(u, AnnualLeave, year(ChainToday)) : u \in UserIds}
               |-> [total_days |-> SeededLeaveTypes[AnnualLeave].annual_quota,
                    used_days |-> 0, pending_days |-> 0]]
    /\ holidays = {}
    /\ delegations = <<>>
    /\ today = ChainToday
    /\ sessions = [x \in Sessions |-> Idle]

NextChain ==
    \/ \E u \in Requesters, rg \in ChainRanges, r \in Reasons :
           Create(u, AnnualLeave, rg[1], rg[2], r)
    \/ \E rid \in DOMAIN requests, u \in UserIds : Cancel(rid, u)
    \/ \E rid \in DOMAIN requests, u \in UserIds, approve \in BOOLEAN :
           Decide(rid, u, approve)

SpecChain == InitChain /\ [][NextChain]_vars

-----------------------------------------------------------------------------
(* The calendar: one week and the Monday after it, with holidays the HR      *)
(* admin enters and removes.  Employee 3 asks for the seeded "Personal       *)
(* Leave" type (quota 5), so a Monday-to-Friday request fits and the six     *)
(* working days up to the next Monday do not.                                *)

PersonalLeave == 3
PersonalLeaveQuota == 5

\* Wednesday 2022-01-05 and Friday 2022-01-07.
CalHolidays == {ChainToday + 2, ChainToday + 4}

\* The weekend before today, Monday to Friday, the weekend, Wednesday, Friday
\* to Sunday, Monday to the next Monday, the next Monday, and a range that ends
\* before it starts.
CalRanges ==
    {<<ChainToday - 2, ChainToday - 1>>,
     <<ChainToday, ChainToday + 4>>,
     <<ChainToday + 5, ChainToday + 6>>,
     <<ChainToday + 2, ChainToday + 2>>,
     <<ChainToday + 4, ChainToday + 6>>,
     <<ChainToday, ChainToday + 7>>,
     <<ChainToday + 7, ChainToday + 7>>,
     <<ChainToday + 4, ChainToday>>}

CalRequester == 3

InitCal ==
    /\ users = Directory
    /\ requests = <<>>
    /\ workflow = <<>>
    /\ balances =
           [k \in {BalanceKey(u, PersonalLeave, year(ChainToday)) : u \in UserIds}
               |-> [total_days |-> PersonalLeaveQuota,
                    used_days |-> 0, pending_days |-> 0]]
    /\ holidays = {}
    /\ delegations = <<>>
    /\ today = ChainToday
    /\ sessions = [x \in Sessions |-> Idle]

\* A date is entered as a holiday once.
CreateHoliday(u, d) ==
    /\ users[u].is_active
    /\ users[u].role = HR_ADMIN
    /\ d \notin holidays
    /\ holidays' = holidays \cup {d}
    /\ UNCHANGED <<users, requests, workflow, balances, delegations, today, sessions>>

DeleteHoliday(u, d) ==
    /\ users[u].is_active
    /\ users[u].role = HR_ADMIN
    /\ d \in holidays
    /\ holidays' = holidays \ {d}
    /\ UNCHANGED <<users, requests, workflow, balances, delegations, today, sessions>>

NextCal ==
    \/ \E rg \in CalRanges, r \in Reasons :
           Create(CalRequester, PersonalLeave, rg[1], rg[2], r)
    \/ \E rid \in DOMAIN requests, rg \in CalRanges :
           Update(rid, CalRequester, rg[1], rg[2], Unset)
    \/ \E rid \in DOMAIN requests : Cancel(rid, CalRequester)
    \/ \E rid \in DOMAIN requests, u \in UserIds, approve \in BOOLEAN :
           Decide(rid, u, approve)
    \/ \E u \in UserIds, d \in CalHolidays : CreateHoliday(u, d)
    \/ \E u \in UserIds, d \in CalHolidays : DeleteHoliday(u, d)

SpecCal == InitCal /\ [][NextCal]_vars

-----------------------------------------------------------------------------
(* Chain construction for requesters of every role, over manager graphs that *)
(* update_user can build: user 2 managed by nobody, by user 3 or by user 4,  *)
(* user 3 managed by nobody, by user 2 or by itself.                         *)

LoopDirectories ==
    {(1 :> [role |-> HR_ADMIN, manager_id |-> None, is_active |-> TRUE]) @@
     (2 :> [role |-> r2,       manager_id |-> m2,   is_active |-> TRUE]) @@
     (3 :> [role |-> EMPLOYEE, manager_id |-> m3,   is_active |-> TRUE]) @@
     (4 :> [role |-> MANAGER,  manager_id |-> None, is_active |-> TRUE]) :
        r2 \in {EMPLOYEE, MANAGER}, m2 \in {None, 3, 4}, m3 \in {None, 2, 3}}

\* The HR admin and the two users whose role and manager vary.
LoopRequesters == {1, 2, 3}

InitLoop ==
    /\ users \in LoopDirectories
    /\ requests = <<>>
    /\ workflow = <<>>
    /\ balances =
           [k \in {BalanceKey(u, AnnualLeave, year(ChainToday)) : u \in UserIds}
               |-> [total_days |-> SeededLeaveTypes[AnnualLeave].annual_quota,
                    used_days |-> 0, pending_days |-> 0]]
    /\ holidays = {}
    /\ delegations = <<>>
    /\ today = ChainToday
    /\ sessions = [x \in Sessions |-> Idle]

NextLoop ==
    \/ \E u \in LoopRequesters, rg \in ChainRanges, r \in Reasons :
           Create(u, AnnualLeave, rg[1], rg[2], r)
    \/ \E rid \in DOMAIN requests, u \in LoopRequesters, rg \in ChainRanges :
           Update(rid, u, rg[1], rg[2], Unset)
    \/ \E rid \in DOMAIN requests, u \in UserIds : Cancel(rid, u)
    \/ \E rid \in DOMAIN requests, u \in UserIds, approve \in BOOLEAN :
           Decide(rid, u, approve)

SpecLoop == InitLoop /\ [][NextLoop]_vars

-----------------------------------------------------------------------------
(* Requests that are only approved: no cancel, no update, no rejection, and  *)
(* every approval that can be given is eventually given.  User 3 is an       *)
(* Employee managed by the HR admin or by user 2; user 2 has either role.    *)

LiveDirectories ==
    {(1 :> [role |-> HR_ADMIN, manager_id |-> None, is_active |-> TRUE]) @@
     (2 :> [role |-> r2,       manager_id |-> m2,   is_active |-> TRUE]) @@
     (3 :> [role |-> EMPLOYEE, manager_id |-> m3,   is_active |-> TRUE]) @@
     (4 :> [role |-> MANAGER,  manager_id |-> None, is_active |-> TRUE]) :
        r2 \in {EMPLOYEE, MANAGER}, m2 \in {None, 4}, m3 \in {1, 2}}

InitLive ==
    /\ users \in LiveDirectories
    /\ requests = <<>>
    /\ workflow = <<>>
    /\ balances =
           [k \in {BalanceKey(u, AnnualLeave, year(ChainToday)) : u \in UserIds}
               |-> [total_days |-> SeededLeaveTypes[AnnualLeave].annual_quota,
                    used_days |-> 0, pending_days |-> 0]]
    /\ holidays = {}
    /\ delegations = <<>>
    /\ today = ChainToday
    /\ sessions = [x \in Sessions |-> Idle]

Approve(rid, u) ==
    /\ rid \in DOMAIN requests
    /\ Decide(rid, u, TRUE)

NextLive ==
    \/ \E u \in Requesters, rg \in ChainRanges, r \in Reasons :
           Create(u, AnnualLeave, rg[1], rg[2], r)
    \/ \E rid \in 1 .. MaxRequests, u \in UserIds : Approve(rid, u)

SpecLive ==
    /\ InitLive
    /\ [][NextLive]_vars
    /\ \A rid \in 1 .. MaxRequests, u \in UserIds : WF_vars(Approve(rid, u))

-----------------------------------------------------------------------------
(* Vocabulary of the properties: stated on the tables alone, not through the *)
(* handlers' helpers.                                                        *)

StepsOf(wf, rid) == {i \in DOMAIN wf : wf[i].leave_request_id = rid}

HigherSteps(wf, i) ==
    {j \in StepsOf(wf, wf[i].leave_request_id) :
        wf[j].approval_level > wf[i].approval_level}

LowerSteps(wf, i) ==
    {j \in StepsOf(wf, wf[i].leave_request_id) :
        wf[j].approval_level < wf[i].approval_level}

PendingStepsOf(wf, rid, approver) ==
    {i \in StepsOf(wf, rid) : wf[i].approver_id = approver /\ wf[i].status = PENDING}

RECURSIVE SumDays(_, _, _, _)
\* The chargeable days of the requests 1..n of reqs that are charged to balance
\* k and have the given status.
SumDays(reqs, n, k, status) ==
    IF n = 0 THEN 0
    ELSE SumDays(reqs, n - 1, k, status) +
         (IF /\ BalanceKey(reqs[n].user_id, reqs[n].leave_type_id,
                           year(reqs[n].start_date)) = k
             /\ reqs[n].status = status
          THEN reqs[n].total_days ELSE 0)

-----------------------------------------------------------------------------
\* C1: after any sequence of create, update, cancel and decide calls, every
\* leave balance has available = total - used - reserved, and available >= 0.
C1_AvailableNonNegative ==
    \A k \in DOMAIN balances :
        /\ available_days(balances[k]) =
               balances[k].total_days - balances[k].used_days - balances[k].pending_days
        /\ available_days(balances[k]) >= 0

\* A balance whose whole quota is used by an approved request, while another
\* request of the same user has been cancelled.
C1_Witness ==
    \E k \in DOMAIN balances :
        /\ balances[k].used_days = balances[k].total_days
        /\ available_days(balances[k]) = 0
        /\ \E i \in DOMAIN requests :
               requests[i].user_id = k[1] /\ requests[i].status = APPROVED
        /\ \E i \in DOMAIN requests :
               requests[i].user_id = k[1] /\ requests[i].status = CANCELLED

\* C2: for every balance, reserved is the sum of the days of the user's Pending
\* requests of that type starting in that year, and used the sum over the
\* Approved ones (Rejected and Cancelled requests hold no days).
C2_LedgerMatchesRequests ==
    \A k \in DOMAIN balances :
        /\ balances[k].pending_days = SumDays(requests, Len(requests), k, PENDING)
        /\ balances[k].used_days = SumDays(requests, Len(requests), k, APPROVED)

\* C4: in every reachable state the used and the reserved (pending) days of
\* every balance are non-negative.
C4_DaysNonNegative ==
    \A k \in DOMAIN balances :
        balances[k].used_days >= 0 /\ balances[k].pending_days >= 0

\* C3: a request's status changes only Pending -> Approved, Pending -> Rejected,
\* Pending -> Cancelled or Approved -> Cancelled, and no call changes a Rejected
\* or Cancelled request, its approval steps or, through it, a balance.
LegalTransition(old_status, new_status) ==
    \/ new_status = old_status
    \/ old_status = PENDING /\ new_status \in {APPROVED, REJECTED, CANCELLED}
    \/ old_status = APPROVED /\ new_status = CANCELLED

C3_StatusTransitions ==
    [][\A rid \in DOMAIN requests :
           /\ LegalTransition(requests[rid].status, requests'[rid].status)
           /\ requests[rid].status \in {REJECTED, CANCELLED} =>
                  /\ requests'[rid] = requests[rid]
                  /\ \A i \in StepsOf(workflow, rid) : workflow'[i] = workflow[i]]_vars

\* C5: a decide call by an approver whose Pending steps on the request all have
\* a lower step that is not Approved fails with OutOfOrderApproval and changes
\* nothing; hence every decided step has all lower steps Approved.
C5_InOrderApproval ==
    /\ \A rid \in DOMAIN requests, u \in UserIds, approve \in BOOLEAN :
           (/\ PendingStepsOf(workflow, rid, u) # {}
            /\ \A i \in PendingStepsOf(workflow, rid, u) :
                   \E j \in LowerSteps(workflow, i) : workflow[j].status # APPROVED)
           => LET res == process_approval(DB, delegations, today, rid, u, approve)
              IN  res.err = "OutOfOrderApproval" /\ res.db = DB
    /\ \A i \in DOMAIN workflow :
           workflow[i].status \in {APPROVED, REJECTED} =>
               \A j \in LowerSteps(workflow, i) : workflow[j].status = APPROVED

\* A second-level approver is refused while the first level is Pending, and on
\* another request a second-level step has been decided.
C5_Witness ==
    /\ \E rid \in DOMAIN requests, u \in UserIds :
           /\ \E i \in PendingStepsOf(workflow, rid, u) : workflow[i].approval_level = 2
           /\ process_approval(DB, delegations, today, rid, u, TRUE).err
                  = "OutOfOrderApproval"
    /\ \E i \in DOMAIN workflow :
           workflow[i].approval_level = 2 /\ workflow[i].status \in {APPROVED, REJECTED}

\* C6: when the last step of a chain is approved, the request becomes Approved
\* and its days move from reserved to used in its balance (available unchanged).
C6_FinalApproval ==
    [][\A i \in DOMAIN workflow :
           (/\ workflow[i].status = PENDING
            /\ workflow'[i].status = APPROVED
            /\ HigherSteps(workflow, i) = {})
           => LET rid == workflow[i].leave_request_id
                  r   == requests[rid]
                  k   == BalanceKey(r.user_id, r.leave_type_id, year(r.start_date))
              IN  /\ requests'[rid].status = APPROVED
                  /\ k \in DOMAIN balances
                  /\ balances'[k].pending_days = balances[k].pending_days - r.total_days
                  /\ balances'[k].used_days = balances[k].used_days + r.total_days
                  /\ available_days(balances'[k]) = available_days(balances[k])]_vars

\* C7: when a step at any level is rejected, the request becomes Rejected, its
\* days are released from reserved (used unchanged) and every higher step is
\* left Pending.
C7_Rejection ==
    [][\A i \in DOMAIN workflow :
           (workflow[i].status = PENDING /\ workflow'[i].status = REJECTED)
           => LET rid == workflow[i].leave_request_id
                  r   == requests[rid]
                  k   == BalanceKey(r.user_id, r.leave_type_id, year(r.start_date))
              IN  /\ requests'[rid].status = REJECTED
                  /\ k \in DOMAIN balances
                  /\ balances'[k].pending_days = balances[k].pending_days - r.total_days
                  /\ balances'[k].used_days = balances[k].used_days
                  /\ \A j \in HigherSteps(workflow, i) : workflow'[j].status = PENDING]_vars

\* C8: a decide call by an approver with no Pending step on the request fails
\* with NoPendingApproval and changes nothing; so once a request's days have
\* been committed or released by a decision, no later decision acts on it.
DecisionTaken(wf, rid) ==
    \E i \in StepsOf(wf, rid) :
        \/ wf[i].status = REJECTED
        \/ wf[i].status = APPROVED /\ HigherSteps(wf, i) = {}

C8_NoPendingApproval ==
    /\ [](\A rid \in DOMAIN requests, u \in UserIds, approve \in BOOLEAN :
              PendingStepsOf(workflow, rid, u) = {} =>
                  LET res == process_approval(DB, delegations, today, rid, u, approve)
                  IN  res.err = "NoPendingApproval" /\ res.db = DB)
    /\ [][\A rid \in DOMAIN requests :
              DecisionTaken(workflow, rid) =>
                  \A i \in StepsOf(workflow, rid) : workflow'[i] = workflow[i]]_vars

\* An approver who has already decided their step calls again and is refused.
C8_Witness ==
    \E rid \in DOMAIN requests, u \in UserIds :
        /\ \E i \in StepsOf(workflow, rid) :
               workflow[i].approver_id = u /\ workflow[i].status # PENDING
        /\ DecisionTaken(workflow, rid)
        /\ process_approval(DB, delegations, today, rid, u, TRUE).err
               = "NoPendingApproval"

\* C9: create is atomic: in no observable state, also after a failure or an
\* interruption of create, is there a Pending request whose days are not
\* reserved in its balance or whose approval chain has not been built.
C9_CreateAtomic ==
    \A rid \in DOMAIN requests :
        requests[rid].status = PENDING =>
            LET k == RequestBalanceKey(requests[rid])
            IN  /\ StepsOf(workflow, rid) # {}
                /\ k \in DOMAIN balances
                /\ balances[k].pending_days >= SumDays(requests, Len(requests), k, PENDING)

\* C10: two decide calls that ran concurrently on the same request (both read
\* the same tables before either committed) leave the tables as one of the two
\* serial orders of the calls would.
Serial(s, a, b) ==
    decide_leave_request(
        decide_leave_request(s, users, delegations, today,
                             a.leave_request_id, a.approver_id, a.approve).db,
        users, delegations, today, b.leave_request_id, b.approver_id, b.approve).db

C10_DecideSerializable ==
    \A x \in Sessions, y \in Sessions :
        (/\ x # y
         /\ sessions[x].pc = "decide_done"
         /\ sessions[y].pc = "decide_done"
         /\ sessions[x].leave_request_id = sessions[y].leave_request_id
         /\ sessions[x].snapshot = sessions[y].snapshot)
        => DB \in {Serial(sessions[x].snapshot, sessions[x], sessions[y]),
                   Serial(sessions[x].snapshot, sessions[y], sessions[x])}

\* C11: when create calls for the same user and balance run concurrently, the
\* balance never ends with available < 0, and once the calls are over its
\* reserved days are the sum of the days of the Pending requests created.
C11_ConcurrentCreate ==
    \A k \in DOMAIN balances :
        /\ available_days(balances[k]) >= 0
        /\ (/\ \A x \in Sessions : sessions[x].pc = "idle"
            /\ \A rid \in DOMAIN requests : StepsOf(workflow, rid) # {}
            /\ \A i \in DOMAIN workflow : workflow[i].status = PENDING)
           => balances[k].pending_days = SumDays(requests, Len(requests), k, PENDING)

\* The user has a Pending or Approved request whose inclusive date range
\* intersects start_date .. end_date.
Intersecting(reqs, uid, start_date, end_date) ==
    \E i \in DOMAIN reqs :
        /\ reqs[i].user_id = uid
        /\ reqs[i].status \in {PENDING, APPROVED}
        /\ \E d \in start_date .. end_date :
               reqs[i].start_date <= d /\ d <= reqs[i].end_date

\* C12 as stated: create fails with OverlappingRequest, persisting and reserving
\* nothing, whenever the user has a Pending or Approved request whose inclusive
\* range intersects the new range.
C12_OverlapAlways ==
    \A u \in UserIds, t \in LeaveTypeIds, sd \in Dates, ed \in Dates, r \in Reasons :
        (sd <= ed /\ Intersecting(requests, u, sd, ed)) =>
            LET res == create_leave_request(DB, users, holidays, today, u, t, sd, ed, r)
            IN  res.err = "OverlappingRequest" /\ res.db = DB

\* C12: a create whose range intersects a Pending or Approved request of the
\* user persists and reserves nothing; it fails with OverlappingRequest when
\* the range passes the earlier validations (not in the past, at least one
\* working day), and with ZeroWorkingDays or PastDateNotAllowed otherwise.
C12_OverlapRejected ==
    \A u \in UserIds, t \in LeaveTypeIds, sd \in Dates, ed \in Dates, r \in Reasons :
        (sd <= ed /\ Intersecting(requests, u, sd, ed)) =>
            LET res == create_leave_request(DB, users, holidays, today, u, t, sd, ed, r)
                valid == /\ sd >= today
                         /\ \E d \in sd .. ed : weekday(d) < 5 /\ d \notin holidays
            IN  /\ res.db = DB
                /\ valid => res.err = "OverlappingRequest"
                /\ ~valid => res.err \in {"ZeroWorkingDays", "PastDateNotAllowed"}

\* A user with an Approved request asks for a range with a working day that
\* intersects it, and is refused.
C12_Witness ==
    \E u \in UserIds, t \in LeaveTypeIds, sd \in Dates, ed \in Dates, r \in Reasons :
        /\ \E i \in DOMAIN requests :
               /\ requests[i].user_id = u
               /\ requests[i].status = APPROVED
               /\ requests[i].start_date <= ed
               /\ requests[i].end_date >= sd
        /\ create_leave_request(DB, users, holidays, today, u, t, sd, ed, r).err
               = "OverlappingRequest"

ActiveHrAdmins == {a \in DOMAIN users : users[a].role = HR_ADMIN /\ users[a].is_active}

\* C13: the chain of an Employee's request has, at levels 1, 2, ... in order:
\* the direct manager if any, then that manager's manager if any, then an
\* active HR admin if and only if the request has more than 5 chargeable days.
C13_EmployeeChain ==
    \A rid \in DOMAIN requests :
        users[requests[rid].user_id].role = EMPLOYEE =>
            LET m     == users[requests[rid].user_id].manager_id
                gm    == IF m # None THEN users[m].manager_id ELSE None
                hr    == requests[rid].total_days > 5 /\ ActiveHrAdmins # {}
                n     == (IF m # None THEN 1 ELSE 0) + (IF gm # None THEN 1 ELSE 0)
                             + (IF hr THEN 1 ELSE 0)
                steps == StepsOf(workflow, rid)
            IN  /\ Cardinality(steps) = n
                /\ {workflow[i].approval_level : i \in steps} = 1 .. n
                /\ \A i \in steps, j \in steps :
                       i < j => workflow[i].approval_level < workflow[j].approval_level
                /\ m # None => \E i \in steps :
                       workflow[i].approval_level = 1 /\ workflow[i].approver_id = m
                /\ gm # None => \E i \in steps :
                       workflow[i].approval_level = 2 /\ workflow[i].approver_id = gm
                /\ hr => \E i \in steps :
                       /\ workflow[i].approval_level = n
                       /\ workflow[i].approver_id \in ActiveHrAdmins

\* An employee with manager and grand-manager has made a 6-day request with 3
\* steps and a 3-day request with 2 steps.
C13_Witness ==
    \E a \in DOMAIN requests, b \in DOMAIN requests :
        /\ requests[a].user_id = requests[b].user_id
        /\ users[requests[a].user_id].role = EMPLOYEE
        /\ requests[a].total_days = 6
        /\ Cardinality(StepsOf(workflow, a)) = 3
        /\ requests[b].total_days = 3
        /\ Cardinality(StepsOf(workflow, b)) = 2

\* C14: the chain of a Manager's request has exactly one step, at level 1, whose
\* approver is an active HR admin, whatever the days and the manager link.
C14_ManagerChain ==
    \A rid \in DOMAIN requests :
        users[requests[rid].user_id].role = MANAGER =>
            /\ Cardinality(StepsOf(workflow, rid)) = 1
            /\ \A i \in StepsOf(workflow, rid) :
                   /\ workflow[i].approval_level = 1
                   /\ workflow[i].approver_id \in ActiveHrAdmins

\* A manager who has a manager of their own has made a 6-day request, and a
\* manager without one a 3-day request.
C14_Witness ==
    \E a \in DOMAIN requests, b \in DOMAIN requests :
        /\ users[requests[a].user_id].role = MANAGER
        /\ users[requests[a].user_id].manager_id # None
        /\ requests[a].total_days = 6
        /\ users[requests[b].user_id].role = MANAGER
        /\ users[requests[b].user_id].manager_id = None
        /\ requests[b].total_days = 3

\* C15: a request created with an empty approval chain never becomes Approved
\* or Rejected: every decide call on it fails and changes nothing, and the only
\* change of its status is to Cancelled.
C15_EmptyChainStaysPending ==
    /\ [](\A rid \in DOMAIN requests :
              StepsOf(workflow, rid) = {} =>
                  /\ requests[rid].status \in {PENDING, CANCELLED}
                  /\ \A u \in UserIds, approve \in BOOLEAN :
                         LET res == decide_leave_request(DB, users, delegations, today,
                                                         rid, u, approve)
                         IN  res.err # "ok" /\ res.db = DB)
    /\ [][\A rid \in DOMAIN requests :
              (StepsOf(workflow, rid) = {} /\ requests'[rid].status # requests[rid].status)
                  => (requests[rid].status = PENDING /\ requests'[rid].status = CANCELLED)]_vars

\* A request with an empty chain is Pending while another request has been
\* decided, and the HR admin's decide call on it is refused.
C15_Witness ==
    \E rid \in DOMAIN requests, other \in DOMAIN requests :
        /\ StepsOf(workflow, rid) = {}
        /\ requests[rid].status = PENDING
        /\ requests[other].status \in {APPROVED, REJECTED}
        /\ \E u \in ActiveHrAdmins :
               decide_leave_request(DB, users, delegations, today, rid, u, TRUE).err
                   = "NoPendingApproval"

ActiveDelegations ==
    {i \in DOMAIN delegations :
        /\ delegations[i].is_active
        /\ delegations[i].start_date <= today
        /\ today <= delegations[i].end_date}

\* C16: while an active delegation from D to E covers today, a decide call by E
\* on a Pending request where D holds the current Pending step succeeds and
\* marks D's step.
C16_DelegateCanDecide ==
    \A i \in ActiveDelegations, rid \in DOMAIN requests, approve \in BOOLEAN :
        LET D == delegations[i].delegator_id
            E == delegations[i].delegate_id
            current == {j \in PendingStepsOf(workflow, rid, D) :
                           \A l \in LowerSteps(workflow, j) : workflow[l].status = APPROVED}
        IN  (/\ E # D
             /\ requests[rid].status = PENDING
             /\ current # {}
             /\ PendingStepsOf(workflow, rid, E) = {})
            => LET res == decide_leave_request(DB, users, delegations, today,
                                               rid, E, approve)
               IN  /\ res.err = "ok"
                   /\ \E j \in current : res.db.workflow[j].status # PENDING

\* C17: a decide call by approver_id gives the same result and the same changes
\* whether or not approver_id has an active delegation today, and when it
\* succeeds the one step it marks is a Pending step whose approver is approver_id.
C17_DelegationDoesNotRekey ==
    \A rid \in DOMAIN requests, u \in UserIds, approve \in BOOLEAN :
        LET res   == process_approval(DB, delegations, today, rid, u, approve)
            plain == process_approval(DB, <<>>, today, rid, u, approve)
        IN  /\ res = plain
            /\ res.err = "ok" =>
                   \E j \in PendingStepsOf(workflow, rid, u) :
                       /\ res.db.workflow[j].status # PENDING
                       /\ \A l \in DOMAIN workflow \ {j} : res.db.workflow[l] = workflow[l]

\* An approver who has delegated to someone else today still has a Pending step
\* of their own, decides it, and has decided another one before.
C17_Witness ==
    \E i \in ActiveDelegations, rid \in DOMAIN requests :
        LET D == delegations[i].delegator_id
        IN  /\ delegations[i].delegate_id # D
            /\ PendingStepsOf(workflow, rid, D) # {}
            /\ process_approval(DB, delegations, today, rid, D, TRUE).err = "ok"
            /\ \E l \in DOMAIN workflow :
                   workflow[l].approver_id = D /\ workflow[l].status # PENDING

\* C18: a successful cancel sets the request to Cancelled and restores its
\* days: reserved decreases by the request's days if it was Pending, used
\* decreases by them if it was Approved, and the other field is unchanged.
C18_CancelRestores ==
    [][\A rid \in DOMAIN requests :
           (requests[rid].status # CANCELLED /\ requests'[rid].status = CANCELLED)
           => LET r == requests[rid]
                  k == BalanceKey(r.user_id, r.leave_type_id, year(r.start_date))
              IN  /\ k \in DOMAIN balances
                  /\ r.status = PENDING =>
                         /\ balances'[k].pending_days = balances[k].pending_days - r.total_days
                         /\ balances'[k].used_days = balances[k].used_days
                  /\ r.status = APPROVED =>
                         /\ balances'[k].used_days = balances[k].used_days - r.total_days
                         /\ balances'[k].pending_days = balances[k].pending_days]_vars

\* C19 as stated: cancel succeeds only for the owner, only on a Pending or
\* Approved request, and only when the start date is still in the future (after
\* today); otherwise it fails and changes nothing.
C19_CancelFutureOnly ==
    \A rid \in DOMAIN requests, u \in UserIds :
        LET res == cancel_leave_request(DB, today, rid, u)
            legal == /\ requests[rid].user_id = u
                     /\ requests[rid].status \in {PENDING, APPROVED}
                     /\ requests[rid].start_date > today
        IN  /\ res.err = "ok" <=> legal
            /\ ~legal => res.db = DB

\* C19: cancel succeeds exactly for the owner of a Pending or Approved request
\* whose start date is today or later; a caller who is not the owner gets
\* Forbidden, the owner of a Rejected or Cancelled request NotCancellable, the
\* owner of a Pending or Approved request that started before today
\* PastLeaveCancellation, and a failing call changes nothing.
C19_CancelLegal ==
    \A rid \in DOMAIN requests, u \in UserIds :
        LET res    == cancel_leave_request(DB, today, rid, u)
            owner  == requests[rid].user_id = u
            live   == requests[rid].status \in {PENDING, APPROVED}
            notyet == requests[rid].start_date >= today
        IN  /\ res.err = "ok" <=> (owner /\ live /\ notyet)
            /\ res.err = "ok" => res.db.requests[rid].status = CANCELLED
            /\ res.err # "ok" => res.db = DB
            /\ ~owner => res.err = "Forbidden"
            /\ (owner /\ ~live) => res.err = "NotCancellable"
            /\ (owner /\ live /\ ~notyet) => res.err = "PastLeaveCancellation"

\* An Approved request that started yesterday cannot be cancelled by its owner,
\* a Cancelled one cannot be cancelled again, and another user is refused.
C19_Witness ==
    /\ \E rid \in DOMAIN requests :
           /\ requests[rid].status = APPROVED
           /\ requests[rid].start_date < today
           /\ cancel_leave_request(DB, today, rid, requests[rid].user_id).err
                  = "PastLeaveCancellation"
           /\ \E u \in UserIds :
                  cancel_leave_request(DB, today, rid, u).err = "Forbidden"
    /\ \E rid \in DOMAIN requests :
           /\ requests[rid].status = CANCELLED
           /\ cancel_leave_request(DB, today, rid, requests[rid].user_id).err
                  = "NotCancellable"

NewReasons == {Unset, "moved"}

\* The dates an update may carry: none, the first or the last day of the window.
EditDates == {None, FirstDate, FirstDate + WindowDays - 1}

\* C20: update succeeds only when the caller owns the request and the request
\* is Pending; another caller gets Forbidden, the owner of a request that is not
\* Pending gets NotPending, and then dates, days, reason and balances are kept.
C20_UpdateLegal ==
    \A rid \in DOMAIN requests, u \in UserIds,
       ns \in EditDates, ne \in EditDates, nr \in NewReasons :
        LET res     == update_leave_request(DB, holidays, rid, u, ns, ne, nr)
            owner   == requests[rid].user_id = u
            pending == requests[rid].status = PENDING
        IN  /\ (owner /\ pending) \/ res.err # "ok"
            /\ ~owner => (res.err = "Forbidden" /\ res.db = DB)
            /\ (owner /\ ~pending) => (res.err = "NotPending" /\ res.db = DB)

\* The owner of an Approved request and the owner of a Rejected one are refused
\* an update, as is another user on a Pending request.
C20_Witness ==
    /\ \E rid \in DOMAIN requests :
           /\ requests[rid].status = APPROVED
           /\ update_leave_request(DB, holidays, rid, requests[rid].user_id,
                                   None, None, "moved").err = "NotPending"
    /\ \E rid \in DOMAIN requests, u \in UserIds :
           /\ requests[rid].status = PENDING
           /\ update_leave_request(DB, holidays, rid, u, None, None, "moved").err
                  = "Forbidden"

\* The working days of start_date .. end_date, counted on the calendar.
ChargeableDays(start_date, end_date) ==
    Cardinality({d \in start_date .. end_date : weekday(d) < 5 /\ d \notin holidays})

\* C21: when update changes the dates and the new days do not fit the balance
\* of the new start year once the request's own reservation is released (from
\* that balance if it is the one that holds it), update fails with
\* InsufficientBalance and leaves balances and request as they were.
C21_UpdateInsufficient ==
    \A rid \in DOMAIN requests, sd \in EditDays, ed \in EditDays :
        LET r    == requests[rid]
            old  == BalanceKey(r.user_id, r.leave_type_id, year(r.start_date))
            new  == BalanceKey(r.user_id, r.leave_type_id, year(sd))
            days == ChargeableDays(sd, ed)
            free == available_days(balances[new])
                        + (IF new = old THEN r.total_days ELSE 0)
        IN  (/\ r.status = PENDING
             /\ sd <= ed
             /\ ~Intersecting(SubSeq(requests, 1, rid - 1) \o
                              SubSeq(requests, rid + 1, Len(requests)),
                              r.user_id, sd, ed)
             /\ new \in DOMAIN balances
             /\ free < days)
            => LET res == update_leave_request(DB, holidays, rid, r.user_id, sd, ed, Unset)
               IN  res.err = "InsufficientBalance" /\ res.db = DB

\* C22: a successful update that changes the dates releases the old days from
\* the balance that held them and reserves the new days in the balance of the
\* new start year, also when the two years differ.
C22_UpdateMovesReservation ==
    [][\A rid \in DOMAIN requests :
           (/\ requests[rid].status = PENDING
            /\ requests'[rid].status = PENDING
            /\ <<requests'[rid].start_date, requests'[rid].end_date>>
                   # <<requests[rid].start_date, requests[rid].end_date>>)
           => LET r   == requests[rid]
                  old == BalanceKey(r.user_id, r.leave_type_id, year(r.start_date))
                  new == BalanceKey(r.user_id, r.leave_type_id,
                                    year(requests'[rid].start_date))
                  days == requests'[rid].total_days
              IN  /\ old \in DOMAIN balances
                  /\ new \in DOMAIN balances
                  /\ new = old =>
                         balances'[old].pending_days
                             = balances[old].pending_days - r.total_days + days
                  /\ new # old =>
                         /\ balances'[old].pending_days
                                = balances[old].pending_days - r.total_days
                         /\ balances'[new].pending_days
                                = balances[new].pending_days + days]_vars

\* C23 as stated: create fails with ZeroWorkingDays, persisting nothing and
\* reserving nothing, whenever the range start..end holds no working day.
C23_ZeroDaysAlways ==
    \A rg \in CalRanges, t \in {PersonalLeave, 6}, r \in Reasons :
        (rg[1] <= rg[2] /\ ChargeableDays(rg[1], rg[2]) = 0)
        => LET res == create_leave_request(DB, users, holidays, today, CalRequester,
                                           t, rg[1], rg[2], r)
           IN  res.err = "ZeroWorkingDays" /\ res.db = DB

\* C23: create for a range start..end that does not start before today and
\* holds no working day fails with ZeroWorkingDays and changes no table; a
\* range that starts before today is refused too, with nothing changed.
C23_ZeroDaysRejected ==
    \A rg \in CalRanges, t \in {PersonalLeave, 6}, r \in Reasons :
        (rg[1] <= rg[2] /\ ChargeableDays(rg[1], rg[2]) = 0)
        => LET res == create_leave_request(DB, users, holidays, today, CalRequester,
                                           t, rg[1], rg[2], r)
           IN  /\ res.db = DB
               /\ res.err # "ok"
               /\ rg[1] >= today => res.err = "ZeroWorkingDays"

\* Friday is a holiday and a create for Friday to Sunday is refused.
C23_Witness ==
    /\ ChainToday + 4 \in holidays
    /\ Len(requests) < MaxRequests
    /\ create_leave_request(DB, users, holidays, today, CalRequester, PersonalLeave,
                            ChainToday + 4, ChainToday + 6, "family").err
           = "ZeroWorkingDays"

\* C24: no Pending or Approved request has chargeable days equal to 0.
C24_NoZeroDayRequest ==
    \A rid \in DOMAIN requests :
        requests[rid].status \in {PENDING, APPROVED} => requests[rid].total_days # 0

\* C25: for every start <= end and every holiday set, calculate_working_days
\* is the number of dates of start..end that are neither Saturday nor Sunday
\* nor a holiday; Monday to Friday without holidays gives 5, Saturday to Sunday
\* gives 0; and a request just created carries that number.
C25_ChargeableDays ==
    /\ [](/\ \A sd \in ChainToday - 2 .. ChainToday + 7,
                ed \in ChainToday - 2 .. ChainToday + 7 :
                sd <= ed =>
                    calculate_working_days(sd, ed, holidays)
                        = Cardinality({d \in sd .. ed : /\ weekday(d) # 5
                                                        /\ weekday(d) # 6
                                                        /\ d \notin holidays})
          /\ holidays = {} =>
                 calculate_working_days(ChainToday, ChainToday + 4, holidays) = 5
          /\ calculate_working_days(ChainToday + 5, ChainToday + 6, holidays) = 0)
    /\ [][Len(requests') > Len(requests) =>
              LET r == requests'[Len(requests')]
              IN  r.total_days = ChargeableDays(r.start_date, r.end_date)]_vars

\* With Wednesday and Friday as holidays, a request for Monday to the next
\* Monday was created with 4 days.
C25_Witness ==
    /\ holidays = CalHolidays
    /\ \E rid \in DOMAIN requests :
           /\ requests[rid].start_date = ChainToday
           /\ requests[rid].end_date = ChainToday + 7
           /\ requests[rid].total_days = 4

\* C26: check_overlapping_requests(user, start, end, exclude) is true exactly
\* when the user has a request other than the excluded one that is Pending or
\* Approved and whose dates start..end share a day with the given range;
\* Rejected and Cancelled requests do not count.
C26_HasOverlap ==
    \A u \in UserIds, rg \in CalRanges, ex \in {None} \cup DOMAIN requests :
        rg[1] <= rg[2] =>
            (check_overlapping_requests(requests, u, rg[1], rg[2], ex)
             <=> \E i \in DOMAIN requests \ {ex} :
                    /\ requests[i].user_id = u
                    /\ requests[i].status \notin {REJECTED, CANCELLED}
                    /\ \E d \in rg[1] .. rg[2] :
                           d \in requests[i].start_date .. requests[i].end_date)

\* A Rejected request for Monday to Friday and a Pending one for Wednesday:
\* Wednesday overlaps, and does not once the Pending request is excluded.
C26_Witness ==
    \E i \in DOMAIN requests, j \in DOMAIN requests :
        /\ requests[i].status = REJECTED
        /\ requests[i].start_date = ChainToday
        /\ requests[i].end_date = ChainToday + 4
        /\ requests[j].status = PENDING
        /\ requests[j].start_date = ChainToday + 2
        /\ requests[j].end_date = ChainToday + 2
        /\ check_overlapping_requests(requests, CalRequester,
                                      ChainToday + 2, ChainToday + 2, None)
        /\ ~check_overlapping_requests(requests, CalRequester,
                                       ChainToday + 2, ChainToday + 2, j)

\* C27 as stated: create fails with InsufficientBalance whenever the balance
\* has fewer available days than the range has chargeable days, and with
\* BalanceNotFound whenever (user, leave type, start year) has no balance.
C27_BalanceAlways ==
    \A rg \in CalRanges, t \in {PersonalLeave, 6}, r \in Reasons :
        rg[1] <= rg[2] =>
            LET res == create_leave_request(DB, users, holidays, today, CalRequester,
                                            t, rg[1], rg[2], r)
                key == BalanceKey(CalRequester, t, year(rg[1]))
            IN  IF key \notin DOMAIN balances
                THEN res.err = "BalanceNotFound"
                ELSE available_days(balances[key]) < ChargeableDays(rg[1], rg[2])
                         => res.err = "InsufficientBalance"

\* C27: a create that passes the validations made before the balance is read
\* fails with BalanceNotFound when (user, leave type, start year) has no
\* balance, fails with InsufficientBalance when the balance has fewer
\* available days than the range has chargeable days, and succeeds otherwise;
\* a failing create changes no table, and a successful one increases the
\* balance's reserved days by exactly the chargeable days.
C27_BalanceChecked ==
    /\ [](\A rg \in CalRanges, t \in {PersonalLeave, 6}, r \in Reasons :
            LET res == create_leave_request(DB, users, holidays, today, CalRequester,
                                            t, rg[1], rg[2], r)
                key == BalanceKey(CalRequester, t, year(rg[1]))
                days == ChargeableDays(rg[1], rg[2])
            IN  /\ res.err # "ok" => res.db = DB
                /\ (/\ rg[1] <= rg[2]
                    /\ rg[1] >= today
                    /\ days > 0
                    /\ ~Intersecting(requests, CalRequester, rg[1], rg[2]))
                   => res.err = IF key \notin DOMAIN balances THEN "BalanceNotFound"
                                ELSE IF available_days(balances[key]) < days
                                     THEN "InsufficientBalance"
                                     ELSE "ok")
    /\ [][Len(requests') > Len(requests) =>
              LET r   == requests'[Len(requests')]
                  key == BalanceKey(r.user_id, r.leave_type_id, year(r.start_date))
              IN  /\ key \in DOMAIN balances
                  /\ available_days(balances[key]) >= r.total_days
                  /\ balances' = [balances EXCEPT ![key].pending_days =
                                     @ + ChargeableDays(r.start_date, r.end_date)]]_vars

\* After a request for Monday to Friday has used up the balance, a create for
\* the next Monday is refused with InsufficientBalance, and one for a leave
\* type without a balance with BalanceNotFound.
C27_Witness ==
    /\ \E rid \in DOMAIN requests :
           /\ requests[rid].start_date = ChainToday
           /\ requests[rid].end_date = ChainToday + 4
           /\ requests[rid].total_days = PersonalLeaveQuota
           /\ requests[rid].status = PENDING
    /\ balances[BalanceKey(CalRequester, PersonalLeave, year(ChainToday))].pending_days
           = PersonalLeaveQuota
    /\ create_leave_request(DB, users, holidays, today, CalRequester, PersonalLeave,
                            ChainToday + 7, ChainToday + 7, "family").err
           = "InsufficientBalance"
    /\ create_leave_request(DB, users, holidays, today, CalRequester, 6,
                            ChainToday + 7, ChainToday + 7, "family").err
           = "BalanceNotFound"

\* C28: a date-changing update, a cancel or a decide whose balance record
\* (user, leave type, start year) is missing fails with BalanceNotFound and
\* changes no table.
C28_MissingBalanceRefused ==
    /\ \A rid \in DOMAIN requests, d \in EditDays :
           LET r == requests[rid]
           IN  (/\ r.status = PENDING
                /\ <<d, d>> # <<r.start_date, r.end_date>>
                /\ BalanceKey(r.user_id, r.leave_type_id, year(d)) \notin DOMAIN balances)
               => LET res == update_leave_request(DB, holidays, rid, r.user_id,
                                                  d, d, Unset)
                  IN  res.err = "BalanceNotFound" /\ res.db = DB
    /\ \A rid \in DOMAIN requests :
           LET r == requests[rid]
           IN  BalanceKey(r.user_id, r.leave_type_id, year(r.start_date))
                   \notin DOMAIN balances
               => /\ LET res == cancel_leave_request(DB, today, rid, r.user_id)
                     IN  res.err # "ok" /\ res.db = DB
                  /\ \A u \in UserIds, approve \in BOOLEAN :
                         LET res == decide_leave_request(DB, users, delegations, today,
                                                         rid, u, approve)
                         IN  res.err # "ok" /\ res.db = DB

\* C29: when a step is approved and its request has a step at a higher level,
\* the request is Pending afterwards, no balance changes, no step is added or
\* removed and no other step changes.
C29_IntermediateApproval ==
    [][\A i \in DOMAIN workflow :
           (/\ workflow[i].status = PENDING
            /\ workflow'[i].status = APPROVED
            /\ HigherSteps(workflow, i) # {})
           => /\ requests'[workflow[i].leave_request_id].status = PENDING
              /\ requests' = requests
              /\ balances' = balances
              /\ DOMAIN workflow' = DOMAIN workflow
              /\ \A j \in DOMAIN workflow \ {i} : workflow'[j] = workflow[j]]_vars

\* C30: once a step of a request is Rejected, every decide call on that request
\* fails and changes nothing, and no step of the request changes status in any
\* later step; the steps above the rejecting level stay as they are.
C30_RejectionIsFinal ==
    /\ [](\A rid \in DOMAIN requests :
              (\E i \in StepsOf(workflow, rid) : workflow[i].status = REJECTED) =>
                  \A u \in UserIds, approve \in BOOLEAN :
                      LET res == decide_leave_request(DB, users, delegations, today,
                                                      rid, u, approve)
                      IN  res.err # "ok" /\ res.db = DB)
    /\ [][\A rid \in DOMAIN requests :
              (\E i \in StepsOf(workflow, rid) : workflow[i].status = REJECTED) =>
                  \A j \in StepsOf(workflow, rid) :
                      workflow'[j].status = workflow[j].status]_vars

\* The first level has rejected, and the approver of a Pending higher step is
\* refused.
C30_Witness ==
    \E i \in DOMAIN workflow :
        /\ workflow[i].status = REJECTED
        /\ \E j \in HigherSteps(workflow, i) :
               /\ workflow[j].status = PENDING
               /\ decide_leave_request(DB, users, delegations, today,
                                       workflow[j].leave_request_id,
                                       workflow[j].approver_id, TRUE).err # "ok"

\* C31: for every delegator and every date, at most one active delegation
\* covers the date.
C31_OneDelegatePerDate ==
    \A D \in UserIds, d \in Dates :
        Cardinality({i \in DOMAIN delegations :
                        /\ delegations[i].delegator_id = D
                        /\ delegations[i].is_active
                        /\ delegations[i].start_date <= d
                        /\ d <= delegations[i].end_date}) <= 1

\* C32: initializing the balances of a year adds, for each active user and
\* active leave type without a balance for that year, one balance with total =
\* the type's annual quota, used = 0 and reserved = 0; it changes no existing
\* balance, no request and no step, and a second run changes nothing more.
C32_InitializeBalances ==
    \A y \in {year(d) : d \in EditDays} :
        LET res     == initialize_leave_balances(DB, users, y)
            lacking == {k \in {<<u, t, y>> : u \in UserIds, t \in DOMAIN LeaveTypes} :
                           /\ users[k[1]].is_active
                           /\ LeaveTypes[k[2]].is_active
                           /\ k \notin DOMAIN balances}
        IN  /\ DOMAIN res.balances = DOMAIN balances \cup lacking
            /\ Cardinality(DOMAIN res.balances)
                   = Cardinality(DOMAIN balances) + Cardinality(lacking)
            /\ \A k \in DOMAIN balances : res.balances[k] = balances[k]
            /\ \A k \in lacking :
                   res.balances[k] = [total_days |-> LeaveTypes[k[2]].annual_quota,
                                      used_days |-> 0, pending_days |-> 0]
            /\ res.requests = requests
            /\ res.workflow = workflow
            /\ initialize_leave_balances(res, users, y) = res

\* Both years have been initialized, one after a request had reserved a day.
C32_Witness ==
    /\ \E k \in DOMAIN balances : k[3] = year(FirstDate) /\ balances[k].pending_days > 0
    /\ \E k \in DOMAIN balances : k[3] = year(FirstDate) + 1 /\ balances[k].pending_days > 0

\* C33: no user has two distinct requests that are both Pending or Approved
\* and whose date ranges share a day.
C33_NoOverlappingRequests ==
    \A i \in DOMAIN requests, j \in DOMAIN requests :
        (/\ i # j
         /\ requests[i].user_id = requests[j].user_id
         /\ requests[i].status \in {PENDING, APPROVED}
         /\ requests[j].status \in {PENDING, APPROVED})
        => \/ requests[i].end_date < requests[j].start_date
           \/ requests[j].end_date < requests[i].start_date

\* C34: a request in status Approved has at least one step, and all its steps
\* are Approved.
C34_ApprovedChainComplete ==
    \A rid \in DOMAIN requests :
        requests[rid].status = APPROVED =>
            /\ StepsOf(workflow, rid) # {}
            /\ \A i \in StepsOf(workflow, rid) : workflow[i].status = APPROVED

\* A request with a chain of three levels has been approved.
C34_Witness ==
    \E rid \in DOMAIN requests :
        /\ requests[rid].status = APPROVED
        /\ Cardinality(StepsOf(workflow, rid)) = 3

\* C35: no step of a request has the requester as its approver.
C35_NoSelfApproval ==
    \A i \in DOMAIN workflow :
        workflow[i].approver_id # requests[workflow[i].leave_request_id].user_id

\* C36: every Pending or Approved request of an Employee with more than 5
\* chargeable days has a step whose approver is an HR admin.
C36_LongLeaveHasHrStep ==
    \A rid \in DOMAIN requests :
        (/\ requests[rid].status \in {PENDING, APPROVED}
         /\ users[requests[rid].user_id].role = EMPLOYEE
         /\ requests[rid].total_days > 5)
        => \E i \in StepsOf(workflow, rid) :
               users[workflow[i].approver_id].role = HR_ADMIN

\* C37: a successful update leaves the approval workflow exactly as it was:
\* the same steps with the same approvers, levels and statuses, approvals
\* already given included.
C37_UpdateKeepsWorkflow ==
    /\ [](\A rid \in DOMAIN requests, rg \in ChainRanges, nr \in NewReasons :
              update_leave_request(DB, holidays, rid, requests[rid].user_id,
                                   rg[1], rg[2], nr).db.workflow = workflow)
    /\ [][\A rid \in DOMAIN requests :
              (/\ requests[rid].status = PENDING
               /\ requests'[rid].status = PENDING
               /\ requests'[rid] # requests[rid])
              => workflow' = workflow]_vars

\* A Pending request whose first level has approved is moved to other dates.
C37_Witness ==
    \E rid \in DOMAIN requests, rg \in ChainRanges :
        /\ requests[rid].status = PENDING
        /\ \E i \in StepsOf(workflow, rid) : workflow[i].status = APPROVED
        /\ <<requests[rid].start_date, requests[rid].end_date>> # rg
        /\ update_leave_request(DB, holidays, rid, requests[rid].user_id,
                                rg[1], rg[2], Unset).err = "ok"

\* C38: the levels of a request's steps are exactly 1..n, one step per level,
\* with n <= 3; every step is Pending when it is added, steps are added only
\* together with their request, and no step is ever removed or changes its
\* request, approver or level.
C38_ChainShape ==
    /\ [](\A rid \in DOMAIN requests :
              LET steps == StepsOf(workflow, rid)
                  n     == Cardinality(steps)
              IN  /\ n <= 3
                  /\ {workflow[i].approval_level : i \in steps} = 1 .. n)
    /\ [][/\ Len(workflow') >= Len(workflow)
          /\ \A i \in DOMAIN workflow :
                 /\ workflow'[i].leave_request_id = workflow[i].leave_request_id
                 /\ workflow'[i].approver_id = workflow[i].approver_id
                 /\ workflow'[i].approval_level = workflow[i].approval_level
          /\ \A i \in DOMAIN workflow' \ DOMAIN workflow :
                 /\ workflow'[i].status = PENDING
                 /\ workflow'[i].leave_request_id \notin DOMAIN requests
                 /\ workflow'[i].leave_request_id \in DOMAIN requests']_vars

\* A chain of three levels exists, partly decided, next to a request with a
\* chain of its own.
C38_Witness ==
    \E rid \in DOMAIN requests :
        /\ Cardinality(StepsOf(workflow, rid)) = 3
        /\ \E i \in StepsOf(workflow, rid) : workflow[i].status = APPROVED
        /\ \E other \in DOMAIN requests \ {rid} : StepsOf(workflow, other) # {}

\* C39: for a Pending request with a non-empty chain, the approver of each step
\* whose lower steps are all Approved can approve it, and the request is
\* eventually Approved.
C39_EventuallyApproved ==
    /\ [](\A rid \in DOMAIN requests, i \in DOMAIN workflow :
              (/\ requests[rid].status = PENDING
               /\ i \in StepsOf(workflow, rid)
               /\ workflow[i].status = PENDING
               /\ \A j \in LowerSteps(workflow, i) : workflow[j].status = APPROVED)
              => decide_leave_request(DB, users, delegations, today, rid,
                                      workflow[i].approver_id, TRUE).err = "ok")
    /\ \A rid \in 1 .. MaxRequests :
           (/\ rid \in DOMAIN requests
            /\ requests[rid].status = PENDING
            /\ StepsOf(workflow, rid) # {})
           ~> (rid \in DOMAIN requests /\ requests[rid].status = APPROVED)

====
